---------------------------- MODULE Spec2Model ----------------------------
(***************************************************************************)
(* A model of src/src/main.rs: the braille renderer (cell_to_char,         *)
(* binarize, render_braille) and the run of main (argument handling,       *)
(* decoding, resizing, binarizing, rendering, writing, exit status).       *)
(*                                                                         *)
(* Text is a sequence of Unicode code points.  A Vec is a sequence, so the *)
(* element the code writes v[i] is v[i + 1] here.  An argument is a        *)
(* sequence of one-character strings.                                      *)
(***************************************************************************)
EXTENDS Integers, Sequences, FiniteSets

VARIABLES
  pc,         \* position of main: start, parsed, decoded, resized, binarized, rendered, exited
  args,       \* env::args(): args[1] is the program name (args[0] in the code)
  file,       \* what image::open finds at the path: NoImage or a grayscale image
  threshold,  \* main's threshold: u8
  scale,      \* main's scale: f32
  img,        \* the decoded image
  resized,    \* the image handed to binarize
  binary,     \* the matrix binarize returned
  art,        \* the string render_braille returned
  reads,      \* the matrix elements render_braille indexed
  stdout,     \* what has been written to standard output
  stderr,     \* what has been written to the error stream: none, usage, error, panic
  status,     \* the exit status, Running until the process ends
  done        \* the operations that have completed, in order

vars == <<pc, args, file, threshold, scale, img, resized, binary, art, reads,
          stdout, stderr, status, done>>

(***************************************************************************)
(* Bounds of the model.                                                    *)
(***************************************************************************)
MaxCells == 10       \* cells of a matrix given to render_braille alone
MaxRows == 9         \* rows of a matrix, and height of an image
MaxCols == 3         \* columns of a matrix, and width of an image
MaxPixels == 4       \* pixels of an image given to binarize
MaxFilePixels == 2   \* pixels of the image file of a run of main
MaxResizedPixels == 2  \* pixels of a resized image whose luminances are free
MaxScaleTenths == 100  \* the scales 0.1, 0.2, ... of the runs that resize
MaxScalePixels == 16   \* pixels of the image file of the runs that resize
MaxPairCells == 8    \* cells of the matrices compared with each other

RECURSIVE Pow2(_)
Pow2(n) == IF n = 0 THEN 1 ELSE 2 * Pow2(n - 1)

(***************************************************************************)
(* u8 arithmetic of render_braille: dots |= 1 << bit.                      *)
(***************************************************************************)
RECURSIVE BitOr(_, _)
BitOr(a, b) ==
  IF a = 0 THEN b
  ELSE IF b = 0 THEN a
  ELSE (IF a % 2 = 1 \/ b % 2 = 1 THEN 1 ELSE 0) + 2 * BitOr(a \div 2, b \div 2)

Shl(a, n) == a * Pow2(n)

(***************************************************************************)
(* cell_to_char: std::char::from_u32 is None for a surrogate and above     *)
(* U+10FFFF, and unwrap_or gives the space.                                *)
(***************************************************************************)
BrailleBase == 10240     \* 0x2800
Space == 32              \* ' '
LineFeed == 10           \* '\n'

from_u32(c) ==
  IF (c >= 55296 /\ c <= 57343) \/ c > 1114111 THEN <<>> ELSE <<c>>

cell_to_char(dots) ==
  LET r == from_u32(BrailleBase + dots)
  IN  IF r = <<>> THEN Space ELSE r[1]


(***************************************************************************)
(* Images.  A GrayImage is its dimensions and its rows of luminances:      *)
(* get_pixel(x, y) is the pixel of column x of row y.                      *)
(***************************************************************************)
dimensions(image) == <<image.width, image.height>>

get_pixel(image, x, y) == image.px[y + 1][x + 1]

(***************************************************************************)
(* binarize: one row per y in 0..h, one cell per x in 0..w, the cell       *)
(* luma < threshold.                                                       *)
(***************************************************************************)
\* a variant of IsInk: a pixel at the threshold is ink too
IsInkInclusive(luma, t) == luma <= t

IsInk(luma, t) == luma < t

binarize(image, t) ==
  LET w == dimensions(image)[1]
      h == dimensions(image)[2]
  IN  [y \in 1..h |-> [x \in 1..w |-> IsInk(get_pixel(image, x - 1, y - 1), t)]]

(***************************************************************************)
(* render_braille.  BitIndex is the match of lines 52-61; InBounds is the  *)
(* guard in front of the read matrix[py][px], which && evaluates only      *)
(* when the guard holds.  An index outside a Vec panics.                   *)
(***************************************************************************)
\* a variant of BitIndex: the bits numbered row by row
BitIndexRowMajor(dx, dy) == 2 * dy + dx

\* a variant of BitIndex: both columns of the last row on bit 6
BitIndexLastRowShared(dx, dy) ==
  IF dy = 3 THEN 6 ELSE IF dx = 0 THEN dy ELSE 3 + dy

BitIndex(dx, dy) ==
  CASE dx = 0 /\ dy = 0 -> 0
    [] dx = 0 /\ dy = 1 -> 1
    [] dx = 0 /\ dy = 2 -> 2
    [] dx = 0 /\ dy = 3 -> 6
    [] dx = 1 /\ dy = 0 -> 3
    [] dx = 1 /\ dy = 1 -> 4
    [] dx = 1 /\ dy = 2 -> 5
    [] dx = 1 /\ dy = 3 -> 7

\* a variant of InBounds: the row below the last one passes the guard
InBoundsInclusive(py, px, height, width) == py <= height /\ px < width

InBounds(py, px, height, width) == py < height /\ px < width

IndexOk(matrix, py, px) ==
  /\ py >= 0 /\ py < Len(matrix)
  /\ px >= 0 /\ px < Len(matrix[py + 1])

\* the sub-positions of the block at (x, y) whose matrix element is read
BlockReads(x, y, height, width) ==
  { <<y + dy, x + dx>> : <<dx, dy>> \in
      { p \in (0..1) \X (0..3) : InBounds(y + p[2], x + p[1], height, width) } }

\* the loops over dy in 0..4 and dx in 0..2, from sub-position i = 2 * dy + dx on
RECURSIVE BlockDots(_, _, _, _, _, _, _)
BlockDots(matrix, x, y, height, width, i, dots) ==
  IF i = 8 THEN dots
  ELSE LET dy == i \div 2
           dx == i % 2
           py == y + dy
           px == x + dx
           ink == /\ InBounds(py, px, height, width)
                  /\ IndexOk(matrix, py, px)
                  /\ matrix[py + 1][px + 1]
       IN  BlockDots(matrix, x, y, height, width, i + 1,
                     IF ink THEN BitOr(dots, Shl(1, BitIndex(dx, dy)) % 256)
                            ELSE dots)

\* a variant of BlockCols: one glyph for every column
RECURSIVE BlockColsEveryColumn(_, _, _, _, _, _)
BlockColsEveryColumn(matrix, x, y, height, width, output) ==
  IF x >= width THEN Append(output, LineFeed)
  ELSE BlockColsEveryColumn(matrix, x + 1, y, height, width,
         Append(output,
                cell_to_char(BlockDots(matrix, x, y, height, width, 0, 0))))

\* for x in (0..width).step_by(2), then output.push('\n')
RECURSIVE BlockCols(_, _, _, _, _, _)
BlockCols(matrix, x, y, height, width, output) ==
  IF x >= width THEN Append(output, LineFeed)
  ELSE BlockCols(matrix, x + 2, y, height, width,
                 Append(output,
                        cell_to_char(BlockDots(matrix, x, y, height, width, 0, 0))))

\* a variant of BlockRows: no line for a matrix without columns
RECURSIVE BlockRowsSkipEmpty(_, _, _, _, _)
BlockRowsSkipEmpty(matrix, y, height, width, output) ==
  IF y >= height \/ width = 0 THEN output
  ELSE BlockRowsSkipEmpty(matrix, y + 4, height, width,
                          BlockCols(matrix, 0, y, height, width, output))

\* for y in (0..height).step_by(4)
RECURSIVE BlockRows(_, _, _, _, _)
BlockRows(matrix, y, height, width, output) ==
  IF y >= height THEN output
  ELSE BlockRows(matrix, y + 4, height, width,
                 BlockCols(matrix, 0, y, height, width, output))

AllReads(height, width) ==
  UNION { BlockReads(x, y, height, width) :
            <<x, y>> \in { q \in (0..(width - 1)) \X (0..(height - 1)) :
                             q[1] % 2 = 0 /\ q[2] % 4 = 0 } }

\* The result of a call: the string, the elements indexed, and whether an
\* index was out of range (matrix[0] of no rows, or a read outside a row).
render_braille(matrix) ==
  LET height == Len(matrix)
  IN  IF height = 0
      THEN [panic |-> TRUE, output |-> <<>>, reads |-> {}]
      ELSE LET width == Len(matrix[1])
               rd == AllReads(height, width)
           IN  IF \E r \in rd : ~IndexOk(matrix, r[1], r[2])
               THEN [panic |-> TRUE, output |-> <<>>, reads |-> rd]
               ELSE [panic |-> FALSE,
                     output |-> BlockRows(matrix, 0, height, width, <<>>),
                     reads |-> rd]

(***************************************************************************)
(* Option values: <<>> is None (or Err), <<v>> is Some(v) (or Ok(v)).      *)
(***************************************************************************)
None == <<>>
Some(v) == <<v>>
unwrap_or(o, d) == IF o = None THEN d ELSE o[1]

\* args.get(i): the code's index i is position i + 1
get(v, i) == IF i + 1 <= Len(v) THEN Some(v[i + 1]) ELSE None

\* char::to_digit(10); -1 stands for None
to_digit(c) ==
  CASE c = "0" -> 0 [] c = "1" -> 1 [] c = "2" -> 2 [] c = "3" -> 3 [] c = "4" -> 4
    [] c = "5" -> 5 [] c = "6" -> 6 [] c = "7" -> 7 [] c = "8" -> 8 [] c = "9" -> 9
    [] OTHER -> -1

(***************************************************************************)
(* s.parse::<u8>(): empty is an error; a lone sign is an error; a leading  *)
(* + is dropped; a - is no digit of an unsigned type; the digits are       *)
(* accumulated with checked_mul and checked_add.                           *)
(***************************************************************************)
U8Max == 255

\* a variant of ParseDigits: the arithmetic wraps instead of failing
RECURSIVE ParseDigitsWrapping(_, _, _)
ParseDigitsWrapping(digits, i, result) ==
  IF i > Len(digits) THEN Some(result)
  ELSE LET x == to_digit(digits[i])
       IN  IF x < 0 THEN None
           ELSE ParseDigitsWrapping(digits, i + 1, (result * 10 + x) % (U8Max + 1))

RECURSIVE ParseDigits(_, _, _)
ParseDigits(digits, i, result) ==
  IF i > Len(digits) THEN Some(result)
  ELSE LET x == to_digit(digits[i])
       IN  IF x < 0 THEN None
           ELSE IF result * 10 > U8Max THEN None
           ELSE IF result * 10 + x > U8Max THEN None
           ELSE ParseDigits(digits, i + 1, result * 10 + x)

parse_u8(src) ==
  IF src = <<>> THEN None
  ELSE IF src[1] \in {"+", "-"} /\ Len(src) = 1 THEN None
  ELSE ParseDigits(IF src[1] = "+" THEN Tail(src) ELSE src, 1, 0)

(***************************************************************************)
(* f32.  A value is (-1)^neg * m / 2^k with m = 0 or 2^23 <= m < 2^24:     *)
(* the 24-bit significand of a normal single-precision number.             *)
(***************************************************************************)
F32(neg, m, k) == [neg |-> neg, m |-> m, k |-> k]
F32One == F32(FALSE, 8388608, 23)

\* a / d rounded to the nearest integer, ties to even
RoundHalfEven(a, d) ==
  LET q == a \div d
      r == a % d
  IN  IF 2 * r > d \/ (2 * r = d /\ q % 2 = 1) THEN q + 1 ELSE q

RECURSIVE NormExp(_, _, _)
NormExp(n, den, k) ==
  IF n * Pow2(k) >= den * 8388608 THEN k ELSE NormExp(n, den, k + 1)

\* the f32 nearest to n / den, for 0 <= n / den < 2^24
ToF32(neg, n, den) ==
  IF n = 0 THEN F32(neg, 0, 0)
  ELSE LET k == NormExp(n, den, 0)
           m == RoundHalfEven(n * Pow2(k), den)
       IN  IF m = 16777216 THEN F32(neg, 8388608, k - 1) ELSE F32(neg, m, k)

RECURSIVE Pow10(_)
Pow10(n) == IF n = 0 THEN 1 ELSE 10 * Pow10(n - 1)

RECURSIVE DecimalValue(_, _, _)
DecimalValue(digits, i, result) ==
  IF i > Len(digits) THEN result
  ELSE DecimalValue(digits, i + 1, result * 10 + to_digit(digits[i]))

IndexOfPoint(s) ==
  IF \E i \in 1..Len(s) : s[i] = "."
  THEN CHOOSE i \in 1..Len(s) : s[i] = "." /\ \A j \in 1..(i - 1) : s[j] # "."
  ELSE Len(s) + 1

(***************************************************************************)
(* s.parse::<f32>() on the arguments of the model, which hold digits,      *)
(* signs, points and the letter x (no exponent, inf or nan): an optional   *)
(* sign, digits, an optional point and digits, at least one digit in all;  *)
(* the value is the nearest f32.                                           *)
(***************************************************************************)
parse_f32(src) ==
  IF src = <<>> THEN None
  ELSE LET signed == src[1] \in {"+", "-"}
           neg == src[1] = "-"
           body == IF signed THEN Tail(src) ELSE src
           p == IndexOfPoint(body)
           int == SubSeq(body, 1, p - 1)
           frac == SubSeq(body, p + 1, Len(body))
           digits == int \o frac
       IN  IF digits = <<>> THEN None
           ELSE IF \E i \in 1..Len(digits) : to_digit(digits[i]) < 0 THEN None
           ELSE Some(ToF32(neg, DecimalValue(digits, 1, 0), Pow10(Len(frac))))

\* (scale - 1.0).abs() > f32::EPSILON, EPSILON being 2^-23; the subtraction
\* is exact for 1/2 <= scale <= 2 and its result is above 1/2 otherwise
differs_from_one(s) ==
  IF s.neg \/ s.m = 0 \/ s.k < 23 THEN TRUE
  ELSE LET d == s.m - Pow2(s.k)
       IN  (IF d < 0 THEN -d ELSE d) > Pow2(s.k - 23)

RECURSIVE ExcessBits(_, _)
ExcessBits(p, r) == IF p \div Pow2(r) < 16777216 THEN r ELSE ExcessBits(p, r + 1)

\* a variant of Trunc: rounding to the nearest integer
TruncRounds(m, e) ==
  IF e >= 1 THEN (m + Pow2(e - 1)) \div Pow2(e) ELSE m * Pow2(-e)

\* the cast of a non-negative f32 m / 2^e to u32: truncation toward zero
Trunc(m, e) == IF e >= 0 THEN m \div Pow2(e) ELSE m * Pow2(-e)

\* (w as f32 * scale) as u32 for w < 2^7: the exact product rounded to a
\* 24-bit significand, then the cast, which gives 0 for a negative value
scaled(w, s) ==
  IF w = 0 \/ s.m = 0 \/ s.neg THEN 0
  ELSE LET p == w * s.m
           r == ExcessBits(p, 0)
       IN  Trunc(RoundHalfEven(p, Pow2(r)), s.k - r)

(***************************************************************************)
(* The inputs of the model.                                                *)
(***************************************************************************)
Lumas == {0, 127, 128, 255}
Thresholds == {0, 1, 127, 128, 129, 255}

NoImage == [width |-> 0, height |-> 0, px |-> <<>>, ok |-> FALSE]

ImagesOf(w, h, lumas) ==
  { [width |-> w, height |-> h, px |-> p, ok |-> TRUE] :
      p \in [1..h -> [1..w -> lumas]] }

Uniform(w, h, c) ==
  [width |-> w, height |-> h, px |-> [y \in 1..h |-> [x \in 1..w |-> c]], ok |-> TRUE]

\* the images of at most n pixels, of width minw..maxw and height minh..maxh
Images(minw, maxw, minh, maxh, n) ==
  UNION { ImagesOf(d[1], d[2], Lumas) :
            d \in { e \in (minw..maxw) \X (minh..maxh) : e[1] * e[2] <= n } }

\* the rectangular matrices of at most MaxCells cells
Matrices ==
  UNION { [1..d[2] -> [1..d[1] -> BOOLEAN]] :
            d \in { e \in (0..MaxCols) \X (0..MaxRows) : e[1] * e[2] <= MaxCells } }

ThresholdArgs ==
  { <<>>, <<"0">>, <<"2", "0", "0">>, <<"2", "5", "5">>, <<"2", "5", "6">>,
    <<"5", "0", "0">>, <<"-", "1">>, <<"+", "7">>, <<"1", "x">> }

ScaleArgs ==
  { <<>>, <<"1">>, <<"1", ".", "0">>, <<"0", ".", "5">>, <<"2">>, <<"1", ".", "5">>,
    <<"-", "1">>, <<"x">>, <<".", "5">>, <<"0">> }

Name == <<"x">>

ArgLists ==
  {<<Name>>, <<Name, Name>>}
    \cup { <<Name, Name, t>> : t \in ThresholdArgs }
    \cup { <<Name, Name, t, s>> : t \in ThresholdArgs, s \in ScaleArgs }

\* the decimal numeral of t / 10
Digit(d) == <<"0", "1", "2", "3", "4", "5", "6", "7", "8", "9">>[d + 1]

RECURSIVE Numeral(_)
Numeral(n) == IF n < 10 THEN <<Digit(n)>> ELSE Append(Numeral(n \div 10), Digit(n % 10))

TenthsArg(t) == Numeral(t \div 10) \o <<".", Digit(t % 10)>>

(***************************************************************************)
(* image::imageops::resize(&img, new_w, new_h, Lanczos3): an image of the  *)
(* dimensions asked for.  The filter is not code of this repository: its   *)
(* result is any image of at most MaxResizedPixels pixels, and any image   *)
(* of one luminance when larger.                                           *)
(***************************************************************************)
resize(image, new_w, new_h) ==
  IF new_w * new_h <= MaxResizedPixels
  THEN ImagesOf(new_w, new_h, Lumas)
  ELSE { Uniform(new_w, new_h, c) : c \in Lumas }

(***************************************************************************)
(* main.                                                                   *)
(***************************************************************************)
Running == -1
DefaultThreshold == 128
DefaultScale == F32One

\* what nothing has assigned or written yet
Base ==
  /\ art = <<>>
  /\ reads = {}
  /\ stdout = <<>>
  /\ stderr = "none"
  /\ status = Running

Init ==
  /\ pc = "start"
  /\ args \in ArgLists
  /\ file \in {NoImage} \cup Images(1, MaxCols, 1, MaxRows, MaxFilePixels)
  /\ threshold = 0
  /\ scale = F32(FALSE, 0, 0)
  /\ img = NoImage
  /\ resized = NoImage
  /\ binary = <<>>
  /\ done = <<>>
  /\ Base

\* a variant of Usage: the exit status is zero
UsageExitsZero ==
  /\ pc = "start"
  /\ Len(args) < 2
  /\ stderr' = "usage"
  /\ status' = 0
  /\ pc' = "exited"
  /\ UNCHANGED <<args, file, threshold, scale, img, resized, binary, art, reads,
                 stdout, done>>

\* lines 77-83: no path, the usage message and exit(1)
Usage ==
  /\ pc = "start"
  /\ Len(args) < 2
  /\ stderr' = "usage"
  /\ status' = 1
  /\ pc' = "exited"
  /\ UNCHANGED <<args, file, threshold, scale, img, resized, binary, art, reads,
                 stdout, done>>

\* lines 85-87
ParseArgs ==
  /\ pc = "start"
  /\ Len(args) >= 2
  /\ threshold' = unwrap_or(IF get(args, 2) = None THEN None
                            ELSE parse_u8(get(args, 2)[1]), DefaultThreshold)
  /\ scale' = unwrap_or(IF get(args, 3) = None THEN None
                        ELSE parse_f32(get(args, 3)[1]), DefaultScale)
  /\ pc' = "parsed"
  /\ UNCHANGED <<args, file, img, resized, binary, art, reads, stdout, stderr,
                 status, done>>

\* lines 90-92: image::open(path)?.to_luma8(); an Err returned from main is
\* reported on the error stream and the exit status is 1
Decode ==
  /\ pc = "parsed"
  /\ IF file.ok
     THEN /\ img' = file
          /\ pc' = "decoded"
          /\ done' = Append(done, "decode")
          /\ UNCHANGED <<stderr, status>>
     ELSE /\ stderr' = "error"
          /\ status' = 1
          /\ pc' = "exited"
          /\ UNCHANGED <<img, done>>
  /\ UNCHANGED <<args, file, threshold, scale, resized, binary, art, reads, stdout>>

\* lines 93-100
Resize ==
  /\ pc = "decoded"
  /\ LET w == dimensions(img)[1]
         h == dimensions(img)[2]
     IN  IF differs_from_one(scale)
         THEN /\ resized' \in resize(img, scaled(w, scale), scaled(h, scale))
              /\ done' = Append(done, "resize")
         ELSE /\ resized' = img
              /\ UNCHANGED done
  /\ pc' = "resized"
  /\ UNCHANGED <<args, file, threshold, scale, img, binary, art, reads, stdout,
                 stderr, status>>

\* line 102
Binarize ==
  /\ pc = "resized"
  /\ binary' = binarize(resized, threshold)
  /\ done' = Append(done, "binarize")
  /\ pc' = "binarized"
  /\ UNCHANGED <<args, file, threshold, scale, img, resized, art, reads, stdout,
                 stderr, status>>

\* line 103; a panic prints its message to the error stream and the process
\* exits with status 101
PanicStatus == 101

RenderBraille ==
  /\ pc = "binarized"
  /\ LET r == render_braille(binary)
     IN  /\ reads' = r.reads
         /\ IF r.panic
            THEN /\ stderr' = "panic"
                 /\ status' = PanicStatus
                 /\ pc' = "exited"
                 /\ UNCHANGED <<art, done>>
            ELSE /\ art' = r.output
                 /\ done' = Append(done, "render")
                 /\ pc' = "rendered"
                 /\ UNCHANGED <<stderr, status>>
  /\ UNCHANGED <<args, file, threshold, scale, img, resized, binary, stdout>>

\* lines 106-109: write_all(art.as_bytes())?; Ok(()).  A failing write has
\* written some proper prefix of the string.
Write ==
  /\ pc = "rendered"
  /\ \/ /\ stdout' = art
        /\ status' = 0
        /\ done' = Append(done, "write")
        /\ UNCHANGED stderr
     \/ /\ art # <<>>
        /\ \E n \in 0..(Len(art) - 1) : stdout' = SubSeq(art, 1, n)
        /\ stderr' = "error"
        /\ status' = 1
        /\ UNCHANGED done
  /\ pc' = "exited"
  /\ UNCHANGED <<args, file, threshold, scale, img, resized, binary, art, reads>>

Next == Usage \/ ParseArgs \/ Decode \/ Resize \/ Binarize \/ RenderBraille \/ Write

Spec == Init /\ [][Next]_vars

(***************************************************************************)
(* binarize and render_braille applied to every image of the bounds: main  *)
(* on entry to binarize, the scale being 1.0.                              *)
(***************************************************************************)
InitPipeline ==
  /\ pc = "resized"
  /\ resized \in Images(0, MaxCols, 0, MaxRows, MaxPixels)
  /\ threshold \in Thresholds
  /\ args = <<Name, Name, Numeral(threshold)>>
  /\ file = resized
  /\ img = resized
  /\ scale = DefaultScale
  /\ binary = <<>>
  /\ done = <<"decode">>
  /\ Base

NextPipeline == Binarize \/ RenderBraille

SpecPipeline == InitPipeline /\ [][NextPipeline]_vars

(***************************************************************************)
(* render_braille applied to every matrix of the bounds: main on entry to  *)
(* render_braille, the image black where the matrix is true.               *)
(***************************************************************************)
ImageOf(matrix) ==
  [width |-> IF matrix = <<>> THEN 0 ELSE Len(matrix[1]),
   height |-> Len(matrix),
   px |-> [y \in 1..Len(matrix) |->
             [x \in 1..Len(matrix[y]) |-> IF matrix[y][x] THEN 0 ELSE 255]],
   ok |-> TRUE]

InitRender ==
  /\ pc = "binarized"
  /\ binary \in Matrices
  /\ threshold = DefaultThreshold
  /\ args = <<Name, Name>>
  /\ resized = ImageOf(binary)
  /\ file = resized
  /\ img = resized
  /\ scale = DefaultScale
  /\ done = <<"decode", "binarize">>
  /\ Base

NextRender == RenderBraille

SpecRender == InitRender /\ [][NextRender]_vars

(***************************************************************************)
(* main up to the call of binarize, for the scales 0.1, 0.2, ... and the   *)
(* image files of one luminance.                                           *)
(***************************************************************************)
ScaleFiles ==
  { Uniform(d[1], d[2], c) :
      d \in { e \in (1..MaxScalePixels) \X (1..MaxScalePixels) :
                e[1] * e[2] <= MaxScalePixels },
      c \in Lumas }

InitScale ==
  /\ pc = "start"
  /\ \E t \in 1..MaxScaleTenths :
       args = <<Name, Name, Numeral(DefaultThreshold), TenthsArg(t)>>
  /\ file \in ScaleFiles
  /\ threshold = 0
  /\ scale = F32(FALSE, 0, 0)
  /\ img = NoImage
  /\ resized = NoImage
  /\ binary = <<>>
  /\ done = <<>>
  /\ Base

NextScale == ParseArgs \/ Decode \/ Resize

SpecScale == InitScale /\ [][NextScale]_vars

(***************************************************************************)
(* The properties.                                                         *)
(***************************************************************************)
CeilDiv(a, b) == (a + b - 1) \div b

Has(op) == \E i \in 1..Len(done) : done[i] = op

Height(matrix) == Len(matrix)
Width(matrix) == IF matrix = <<>> THEN 0 ELSE Len(matrix[1])

\* C1: render_braille applied to a matrix of zero rows returns the empty
\* string, with no glyph, no line terminator and no out-of-range index.
C1_EmptyMatrixRendersEmpty ==
  (Has("binarize") /\ pc # "binarized" /\ binary = <<>>)
    => (Has("render") /\ art = <<>> /\ stderr # "panic" /\ status # PanicStatus)

C3_DimensionLaw ==
  (Has("binarize") /\ pc # "binarized" /\ Height(binary) >= 1 /\ Width(binary) >= 1)
    => LET lines == CeilDiv(Height(binary), 4)
           glyphs == CeilDiv(Width(binary), 2)
       IN  /\ pc = "rendered"
           /\ Len(art) = lines * (glyphs + 1)
           /\ \A i \in 1..Len(art) : (art[i] = 10) <=> (i % (glyphs + 1) = 0)

C3_Witness ==
  /\ pc = "rendered"
  /\ Height(binary) = 5
  /\ Width(binary) = 2
  /\ Len(art) = 4
  /\ art[2] = 10
  /\ art[4] = 10

\* the Bit Position Table of the specification
TableBit(dx, dy) ==
  [p \in (0..1) \X (0..3) |->
     CASE p = <<0, 0>> -> 0 [] p = <<0, 1>> -> 1 [] p = <<0, 2>> -> 2
       [] p = <<0, 3>> -> 6 [] p = <<1, 0>> -> 3 [] p = <<1, 1>> -> 4
       [] p = <<1, 2>> -> 5 [] p = <<1, 3>> -> 7][<<dx, dy>>]

RECURSIVE SumPow2(_)
SumPow2(bits) ==
  IF bits = {} THEN 0
  ELSE LET b == CHOOSE c \in bits : TRUE
       IN  Pow2(b) + SumPow2(bits \ {b})

\* the mask of the block at (x, y): bit b is set iff b is the table entry of
\* a sub-position inside the matrix whose cell is true
TableMask(matrix, x, y) ==
  SumPow2({ TableBit(p[1], p[2]) :
              p \in { q \in (0..1) \X (0..3) :
                        /\ x + q[1] < Width(matrix)
                        /\ y + q[2] < Height(matrix)
                        /\ matrix[y + q[2] + 1][x + q[1] + 1] } })

\* C4: the glyph at line y/4, column x/2 is the character 0x2800 + m, m the
\* table mask of the block at (x, y); it is in U+2800..U+28FF and never the
\* fallback space.
C4_GlyphOfBlock ==
  (pc = "rendered" /\ Height(binary) >= 1)
    => LET lines == CeilDiv(Height(binary), 4)
           glyphs == CeilDiv(Width(binary), 2)
       IN  /\ Len(art) = lines * (glyphs + 1)
           /\ \A l \in 0..(lines - 1), c \in 0..(glyphs - 1) :
                LET g == art[l * (glyphs + 1) + c + 1]
                IN  /\ g = 10240 + TableMask(binary, 2 * c, 4 * l)
                    /\ g >= 10240 /\ g <= 10495
                    /\ g # 32

C4_Witness ==
  /\ pc = "rendered"
  /\ binary = [y \in 1..4 |-> [x \in 1..2 |-> TRUE]]
  /\ art = <<10495, 10>>

Tenths == CHOOSE t \in 1..MaxScaleTenths : Len(args) = 4 /\ args[4] = TenthsArg(t)

\* a / 10 rounded to the nearest integer, halves away from zero
RoundTenths(a) == (a + 5) \div 10

\* C6: when the scale differs from 1.0 the image handed to binarize has
\* width round(w * scale) and height round(h * scale).
C6_ScaledByRounding ==
  (pc = "resized" /\ Tenths # 10)
    => /\ resized.width = RoundTenths(img.width * Tenths)
       /\ resized.height = RoundTenths(img.height * Tenths)

\* n is w * t / 10 truncated, or one less where w * t / 10 is an integer and
\* t / 10 is no single-precision number
TruncatedTenths(n, w, t) ==
  LET a == w * t
  IN  \/ n = a \div 10
      \/ n = (a \div 10) - 1 /\ a % 10 = 0 /\ t % 5 # 0

\* C6 as amended: when the scale differs from 1.0 the image handed to
\* binarize has the width and height of the decoded image times the scale,
\* truncated toward zero (one less where the exact product is an integer and
\* the scale is no single-precision number); at scale 1.0 it is the decoded
\* image.
C6_ScaledByTruncation ==
  pc = "resized"
    => IF Tenths = 10
       THEN resized = img
       ELSE /\ TruncatedTenths(resized.width, img.width, Tenths)
            /\ TruncatedTenths(resized.height, img.height, Tenths)
            /\ Len(resized.px) = resized.height
            /\ \A y \in 1..resized.height : Len(resized.px[y]) = resized.width

C6_Witness ==
  /\ pc = "resized"
  /\ Tenths = 42
  /\ img.width = 15
  /\ resized.width = 62
  /\ img.height = 1
  /\ resized.height = 4

\* what the threshold and scale arguments of the model stand for
ThresholdOf(arg) ==
  CASE arg = <<"0">> -> 0
    [] arg = <<"2", "0", "0">> -> 200
    [] arg = <<"2", "5", "5">> -> 255
    [] arg = <<"+", "7">> -> 7
    [] arg \in { <<>>, <<"2", "5", "6">>, <<"5", "0", "0">>, <<"-", "1">>,
                 <<"1", "x">> } -> 128

ScaleOf(arg) ==
  CASE arg \in { <<"1">>, <<"1", ".", "0">> } -> [neg |-> FALSE, m |-> 8388608, k |-> 23]
    [] arg \in { <<"0", ".", "5">>, <<".", "5">> } -> [neg |-> FALSE, m |-> 8388608, k |-> 24]
    [] arg = <<"2">> -> [neg |-> FALSE, m |-> 8388608, k |-> 22]
    [] arg = <<"1", ".", "5">> -> [neg |-> FALSE, m |-> 12582912, k |-> 23]
    [] arg = <<"-", "1">> -> [neg |-> TRUE, m |-> 8388608, k |-> 23]
    [] arg = <<"0">> -> [neg |-> FALSE, m |-> 0, k |-> 0]
    [] arg \in { <<>>, <<"x">> } -> [neg |-> FALSE, m |-> 8388608, k |-> 23]

\* C7: with an image path given, a threshold argument that is absent or no
\* u8 numeral (500, a negative, text) gives threshold 128, with no
\* diagnostic and no exit, and the run goes on; one that parses is used
\* unchanged.  The same for scale, with 1.0.
C7_OptionalArguments ==
  (pc # "start" /\ Len(args) >= 2)
    => /\ threshold = IF Len(args) >= 3 THEN ThresholdOf(args[3]) ELSE 128
       /\ scale = IF Len(args) >= 4 THEN ScaleOf(args[4])
                  ELSE [neg |-> FALSE, m |-> 8388608, k |-> 23]
       /\ pc = "parsed" => (stderr = "none" /\ status = Running /\ ENABLED Decode)

C7_Witness ==
  /\ pc = "parsed"
  /\ Len(args) = 4
  /\ args[3] = <<"5", "0", "0">>
  /\ args[4] = <<"x">>
  /\ threshold = 128
  /\ stderr = "none"

Rank(op) ==
  CASE op = "decode" -> 1 [] op = "resize" -> 2 [] op = "binarize" -> 3
    [] op = "render" -> 4 [] op = "write" -> 5

IsPrefix(a, b) == Len(a) <= Len(b) /\ a = SubSeq(b, 1, Len(a))

\* C8: (1) with no image path the usage message goes to the error stream and
\* the process exits non-zero with no decode, resize, binarize, render or
\* write; (2) if decoding fails the process exits non-zero with nothing on
\* standard output; (3) standard output is written only after binarize and
\* render_braille have completed, with exactly the rendered string, and a
\* run whose write succeeds exits with status zero.
C8_OrderAndExit ==
  /\ \A i, j \in 1..Len(done) : i < j => Rank(done[i]) < Rank(done[j])
  /\ (pc = "exited") <=> (status # Running)
  /\ (pc # "start" /\ Len(args) < 2)
       => (pc = "exited" /\ stderr = "usage" /\ status > 0
             /\ done = <<>> /\ stdout = <<>>)
  /\ (pc \notin {"start", "parsed"} /\ Len(args) >= 2 /\ ~file.ok)
       => (pc = "exited" /\ stderr = "error" /\ status > 0
             /\ done = <<>> /\ stdout = <<>>)
  /\ (stdout # <<>> \/ Has("write"))
       => (Has("binarize") /\ Has("render") /\ pc = "exited"
             /\ art = render_braille(binary).output /\ IsPrefix(stdout, art))
  /\ Has("write") <=> (status = 0)
  /\ Has("write") => stdout = art

C8_Witness ==
  /\ pc = "exited"
  /\ status = 0
  /\ done = <<"decode", "resize", "binarize", "render", "write">>
  /\ stdout = art
  /\ Len(stdout) >= 2

\* C9: for every rectangular matrix with at least one row, every element
\* matrix[py][px] render_braille reads has py < height and px < width: the
\* sub-positions of edge blocks outside the matrix are skipped, and no
\* index is out of range.
C9_ReadsInBounds ==
  (Has("binarize") /\ pc # "binarized" /\ Height(binary) >= 1)
    => /\ \A r \in reads : r[1] < Height(binary) /\ r[2] < Width(binary)
       /\ reads = (0..(Height(binary) - 1)) \X (0..(Width(binary) - 1))
       /\ stderr # "panic"
       /\ pc \in {"rendered", "exited"} /\ Has("render")

C9_Witness ==
  /\ pc = "rendered"
  /\ Height(binary) = 3
  /\ Width(binary) = 3
  /\ Cardinality(reads) = 9

\* the string render_braille returns for a matrix with a row
Rendered(matrix) == BlockRows(matrix, 0, Height(matrix), Width(matrix), <<>>)

\* C10: the (dx, dy) -> bit mapping is a bijection from the 8 sub-positions
\* onto bits 0..7, and render_braille returns the same string for two
\* matrices of the same width >= 1 and height >= 1 only if they are equal.
C10_Lossless ==
  /\ { BitIndex(p[1], p[2]) : p \in (0..1) \X (0..3) } = 0..7
  /\ (pc = "rendered" /\ Height(binary) >= 1 /\ Width(binary) >= 1
        /\ Height(binary) * Width(binary) <= MaxPairCells)
       => \A other \in [1..Height(binary) -> [1..Width(binary) -> BOOLEAN]] :
            Rendered(other) = art => other = binary

C10_Witness ==
  /\ pc = "rendered"
  /\ Height(binary) = 4
  /\ Width(binary) = 2
  /\ binary[4][1] /\ ~binary[4][2] /\ ~binary[1][2]
  /\ art[1] >= 10240 + 64
=============================================================================
